---- MODULE Spec2Model ----
(***************************************************************************)
(* Model of the directory SEO-slug / subdomain-routing slice and of the    *)
(* lead-popup hook of the indiantrademart frontend.                        *)
(*                                                                         *)
(* Strings are modelled as sequences of atoms.  For hosts and paths an     *)
(* atom is either a punctuation character ("/", ".", ":") or a whole word  *)
(* of the vocabulary below; no word of the vocabulary is a prefix of       *)
(* another one, so startsWith / === / split on the atom sequences agree    *)
(* with the same operations on the character strings.                      *)
(***************************************************************************)
EXTENDS Integers, Sequences, FiniteSets, TLC

VARIABLES
    \* SubdomainRouter
    phase,      \* "idle" | "done" : position of the router's request cycle
    req,        \* the inbound request: [host, urlPort, path]
    resp,       \* the NextResponse produced by middleware for req
    hops,       \* redirects the client has followed for this request
    \* SEO path builder / parser
    seoPhase,   \* "idle" | "built" | "parsed" | "visited"
    seoOpts,    \* the names handed to buildDirectorySeoPath
    seoPath,    \* the path it returned (Null when none)
    seoParams,  \* the segment list handed to parseSeoSlug
    seoTriple,  \* the triple parseSeoSlug returned for the visited URL
    seoTitles,  \* serviceTitle / cityTitle / stateTitle of DirectoryPage
    \* useLeadPopup
    storage,          \* sessionStorage holds POPUP_SUBMITTED_KEY
    mounted,          \* a page view using the hook is mounted
    isOpen,           \* rendered value of the isOpen state
    hasSubmitted,     \* rendered value of the hasSubmitted state
    hasDismissed,     \* rendered value of the hasDismissed state
    pending,          \* state updates queued by setState, not yet rendered
    enabledAutoOpen,  \* option enabledAutoOpen of the last render
    autoOpenDelayMs,  \* option autoOpenDelayMs, in ticks
    timer,            \* ticks left of the armed auto-open timeout, -1: none
    formTimer,        \* the form's delayed success callback:
                      \* "none" | "current" (this view) | "stale" (a view left)
    \* history of the page view, for stating properties
    viewAfterSubmit,  \* the view was mounted with the flag already stored
    sessionDismissed, \* closePopup() has run earlier in this browser session
    viewAfterDismiss, \* the view was mounted after such a dismissal
    visitor,          \* who views DirectoryPage: "guest" | "member" (logged
                      \* in); "none": no view, or the hook has another caller
    mountError,       \* the last mount raised an error out of its effect
    timerAtUnmount,   \* the timeout was armed when the last view was left
    openedBy,         \* what caused the last closed -> open: "none"|"timer"|"manual"
    timerOpens,       \* closed -> open transitions the timer caused (capped)
    lastOp,           \* the handler that ran last
    \* SlugCodec
    slugPhase,  \* "idle" | "once" | "twice"
    slugText,   \* the text handed to toSlug
    slugOnce,   \* toSlug(slugText)
    slugTwice,  \* toSlug(slugOnce)
    \* CategoryResolver
    catPhase,   \* "idle" | "resolved"
    catService, \* the service name handed to the resolver
    catalog,    \* the category catalog handed to it
    catPath,    \* the DirectoryCategoryPath it returned
    \* useCitySuggestions
    sugMounted,      \* a component using the hook is mounted
    stateName,       \* argument stateName of the last render
    cityName,        \* argument cityName of the last render
    citySuggestions, \* the citySuggestions state
    isLoading,       \* the isLoading state
    inflight,        \* fetchCities calls awaiting api.get: [id, stateName, cityName]
    fetchCount,      \* fetchCities calls started in this view
    shownFor,        \* the arguments of the effect run that set citySuggestions
    \* AuthGuard
    guardMounted,    \* an AuthGuard is mounted
    auth,            \* state.auth of the store: [loading, isAuthenticated, user]
    requireAuth,     \* prop requireAuth
    loadingTimeout,  \* rendered value of the loadingTimeout state
    guardPending,    \* queued setLoadingTimeout: "none" | "true" | "false"
    guardTimer,      \* seconds left of the loading timeout, -1: none armed
    guardView,       \* what the last render returned
    pushed           \* target of the last router.push of this view

rvars == << phase, req, resp, hops >>
svars == << seoPhase, seoOpts, seoPath, seoParams, seoTriple, seoTitles >>
pvars == << storage, mounted, isOpen, hasSubmitted, hasDismissed, pending,
            enabledAutoOpen, autoOpenDelayMs, timer, formTimer,
            viewAfterSubmit, sessionDismissed, viewAfterDismiss,
            visitor, mountError, timerAtUnmount, openedBy, timerOpens,
            lastOp >>
kvars == << slugPhase, slugText, slugOnce, slugTwice >>
cvars == << catPhase, catService, catalog, catPath >>
uvars == << sugMounted, stateName, cityName, citySuggestions, isLoading,
            inflight, fetchCount, shownFor >>
gvars == << guardMounted, auth, requireAuth, loadingTimeout, guardPending,
            guardTimer, guardView, pushed >>
vars == << rvars, svars, pvars, kvars, cvars, uvars, gvars >>

(***************************************************************************)
(* Bounds                                                                  *)
(***************************************************************************)
MaxTail == 3          \* atoms appended after the head of a request path
MaxServiceWords == 3  \* words of a service name
MaxPlaceWords == 2    \* words of a state name
MaxCityWords == 1     \* words of a city name
MaxSlugTokens == 6    \* segments of a directly visited directory URL
MaxText == 5          \* characters of a text handed to toSlug
MaxCategories == 2    \* categories of a catalog
MaxSubCategories == 1 \* subcategories of a category
MaxDelay == 2         \* longest auto-open delay, in ticks
MaxHops == 2          \* redirects a client follows for one request
MaxCities == 2        \* cities in a response of the location API
MaxFetches == 2       \* city fetches started within one view

(***************************************************************************)
(* String helpers (JavaScript String.prototype semantics on atom seqs)     *)
(***************************************************************************)
StartsWith(s, p) ==
    /\ Len(p) <= Len(s)
    /\ SubSeq(s, 1, Len(p)) = p

\* index of the first occurrence of sep in s, 0 when there is none
IndexOf(s, sep) ==
    LET hits == { i \in 1..(Len(s) - Len(sep) + 1) :
                      SubSeq(s, i, i + Len(sep) - 1) = sep }
    IN  IF hits = {} THEN 0 ELSE CHOOSE i \in hits : \A j \in hits : i <= j

Includes(s, sep) == IndexOf(s, sep) # 0

\* s.split(sep) for a non-empty separator: all the pieces, in order
RECURSIVE Split(_, _)
Split(s, sep) ==
    LET i == IndexOf(s, sep)
    IN  IF i = 0
        THEN << s >>
        ELSE << SubSeq(s, 1, i - 1) >>
                 \o Split(SubSeq(s, i + Len(sep), Len(s)), sep)

\* arr[k] with JavaScript's 0-based index; the empty string stands for
\* undefined where the code writes  arr[k] || ''
At(arr, k) == IF k + 1 <= Len(arr) THEN arr[k + 1] ELSE << >>

\* arr.join(sep)
RECURSIVE Join(_, _)
Join(arr, sep) ==
    IF Len(arr) = 0 THEN << >>
    ELSE IF Len(arr) = 1 THEN arr[1]
    ELSE arr[1] \o sep \o Join(Tail(arr), sep)

(***************************************************************************)
(* SubdomainRouter: middleware.ts                                          *)
(***************************************************************************)
MAIN_DOMAIN == << "indiantrademart", ".", "com" >>

\* SUBDOMAIN_MAP[subdomain]; << >> stands for undefined
SUBDOMAIN_MAP(sub) ==
    IF sub = << "vendor" >> THEN << "/", "vendor" >>
    ELSE IF sub = << "buyer" >> THEN << "/", "buyer" >>
    ELSE IF sub = << "emp" >> THEN << "/", "employee" >>
    ELSE IF sub = << "dir" >> THEN << "/", "directory" >>
    ELSE IF sub = << "man" >> THEN << "/", "management" >>
    ELSE << >>

\* host header -> hostname, subdomain, port, isLocalhost
HostnameOf(host) == At(Split(host, << ":" >>), 0)
SubdomainOf(host) == At(Split(HostnameOf(host), << "." >>), 0)
CurrentPort(host) == At(Split(host, << ":" >>), 1)
IsLocalhost(hostname) == Includes(hostname, << "localhost" >>)

\* req.nextUrl: the URL of the request; its port is the one the server was
\* reached on, which a proxy may make differ from the Host header's port
NextUrl(r) ==
    [ hostname |-> HostnameOf(r.host),
      port     |-> r.urlPort,
      pathname |-> r.path ]

\* /\.[^/]+$/.test(pathname)
HasFileExtension(pathname) ==
    \E i \in 1..Len(pathname) :
        /\ pathname[i] = "."
        /\ i < Len(pathname)
        /\ \A j \in (i + 1)..Len(pathname) : pathname[j] # "/"

\* variant: the Host header's port is never copied to the redirect URL
BuildSubdomainRedirectUrl_NoPortCopy(r, host, hostname, sub) ==
    LET redirectUrl == NextUrl(r)
    IN  IF IsLocalhost(hostname)
        THEN [ redirectUrl EXCEPT !.hostname = << sub, ".", "localhost" >> ]
        ELSE [ redirectUrl EXCEPT
                 !.hostname = << sub, "." >> \o MAIN_DOMAIN,
                 !.port = << >> ]

BuildSubdomainRedirectUrl(r, host, hostname, sub) ==
    LET redirectUrl == NextUrl(r)
        currentPort == CurrentPort(host)
    IN  IF IsLocalhost(hostname)
        THEN [ redirectUrl EXCEPT
                 !.hostname = << sub, ".", "localhost" >>,
                 !.port = IF currentPort # << >> THEN currentPort ELSE @ ]
        ELSE [ redirectUrl EXCEPT
                 !.hostname = << sub, "." >> \o MAIN_DOMAIN,
                 !.port = << >> ]

ReservedPrefixes ==
    { << "/", "directory" >>, << "/", "api" >>, << "/", "_next" >>,
      << "/", "dashboard" >>, << "/", "auth" >>, << "/", "static" >>,
      << "/", "assets" >>, << "/", "favicon" >> }

ReservedMainPrefixes ==
    { << "/", "api" >>, << "/", "_next" >>, << "/", "dashboard" >>,
      << "/", "auth" >>, << "/", "static" >>, << "/", "assets" >>,
      << "/", "favicon" >>, << "/", "directory" >>, << "/", "vendor" >>,
      << "/", "buyer" >>, << "/", "employee" >>, << "/", "management" >> }

\* prefixes.some(prefix => pathname === prefix || pathname.startsWith(prefix + '/'))
IsReservedIn(prefixes, pathname) ==
    \E prefix \in prefixes :
        pathname = prefix \/ StartsWith(pathname, prefix \o << "/" >>)

\* target URL of the main/www bare-slug redirect
BareSlugTargetUrl(r, host, hostname) ==
    LET isLocalhost == IsLocalhost(hostname)
        baseDomain  == IF isLocalhost THEN << "localhost" >> ELSE MAIN_DOMAIN
        targetUrl   == NextUrl(r)
        currentPort == CurrentPort(host)
    IN  [ targetUrl EXCEPT
            !.hostname = IF isLocalhost THEN << "dir", ".", "localhost" >>
                         ELSE << "dir", "." >> \o baseDomain,
            !.port = IF isLocalhost
                     THEN (IF currentPort # << >> THEN currentPort ELSE @)
                     ELSE << >> ]

ResponseNext(r)          == [ kind |-> "next", status |-> 200, url |-> NextUrl(r) ]
ResponseRewrite(u)       == [ kind |-> "rewrite", status |-> 200, url |-> u ]
ResponseRedirect(u, st)  == [ kind |-> "redirect", status |-> st, url |-> u ]

\* 0.5) /auth/vendor/... away from the vendor subdomain
IsVendorAuthRedirect(pathname, subdomain) ==
    /\ StartsWith(pathname, << "/", "auth", "/", "vendor", "/" >>)
    /\ subdomain # << "vendor" >>

\* variant: redirects on the buyer subdomain too
IsBuyerAuthRedirect_AnySubdomain(pathname, subdomain) ==
    StartsWith(pathname, << "/", "auth", "/", "user", "/" >>)

\* 0.5) /auth/user/... away from the buyer subdomain
IsBuyerAuthRedirect(pathname, subdomain) ==
    /\ StartsWith(pathname, << "/", "auth", "/", "user", "/" >>)
    /\ subdomain # << "buyer" >>

\* variant: the bare /directory path is not matched
IsDirectoryRedirect_PrefixOnly(pathname, subdomain) ==
    /\ StartsWith(pathname, << "/", "directory", "/" >>)
    /\ subdomain # << "dir" >>

\* 0.6) /directory or /directory/... away from the dir subdomain
IsDirectoryRedirect(pathname, subdomain) ==
    /\ \/ pathname = << "/", "directory" >>
       \/ StartsWith(pathname, << "/", "directory", "/" >>)
    /\ subdomain # << "dir" >>

\* variant: only the exact path /auth/ is matched
IsAuthRoute_ExactOnly(pathname) == pathname = << "/", "auth", "/" >>

\* 1) auth routes that are already on the right subdomain
IsAuthRoute(pathname) == StartsWith(pathname, << "/", "auth", "/" >>)

\* 2) root-level SEO path on the dir subdomain
IsDirRewrite(pathname, subdomain) ==
    /\ subdomain = << "dir" >>
    /\ pathname # << "/" >>
    /\ ~IsReservedIn(ReservedPrefixes, pathname)
    /\ ~StartsWith(pathname, << "/", "directory" >>)

\* variant: the request path is dropped from the rewrite target
DirRewriteUrl_DropPath(url, pathname) ==
    [ url EXCEPT !.pathname = << "/", "directory" >> ]

DirRewriteUrl(url, pathname) ==
    [ url EXCEPT !.pathname = << "/", "directory" >> \o pathname ]

\* 2.5) root-level slug on the main domain or on www
IsBareSlugRedirect(pathname, subdomain) ==
    /\ subdomain = << >> \/ subdomain = << "www" >>
    /\ pathname # << "/" >>
    /\ ~IsReservedIn(ReservedMainPrefixes, pathname)

\* variant: no dashboard exemption
IsDashboardRoute_Never(pathname) == FALSE

\* `isDashboardRoute` of the generic subdomain rewrite
IsDashboardRoute(pathname) == StartsWith(pathname, << "/", "dashboard" >>)

\* 3) generic subdomain -> path mapping
IsSubdomainRewrite(pathname, targetPath) ==
    /\ targetPath # << >>
    /\ ~StartsWith(pathname, targetPath)
    /\ ~IsDashboardRoute(pathname)

SubdomainRewriteUrl(url, pathname, targetPath) ==
    LET extra == IF pathname = << "/" >> THEN << >> ELSE pathname
    IN  [ url EXCEPT !.pathname = targetPath \o extra ]

\* the whole middleware(req): stages in source order, first match wins
middleware(r) ==
    LET url       == NextUrl(r)
        pathname  == url.pathname
        host      == r.host
        hostname  == HostnameOf(host)
        subdomain == SubdomainOf(host)
        targetPath == SUBDOMAIN_MAP(subdomain)
    IN  IF HasFileExtension(pathname) THEN ResponseNext(r)
        ELSE IF IsVendorAuthRedirect(pathname, subdomain)
        THEN ResponseRedirect(
                 BuildSubdomainRedirectUrl(r, host, hostname, "vendor"), 307)
        ELSE IF IsBuyerAuthRedirect(pathname, subdomain)
        THEN ResponseRedirect(
                 BuildSubdomainRedirectUrl(r, host, hostname, "buyer"), 307)
        ELSE IF IsDirectoryRedirect(pathname, subdomain)
        THEN ResponseRedirect(
                 BuildSubdomainRedirectUrl(r, host, hostname, "dir"), 307)
        ELSE IF IsAuthRoute(pathname) THEN ResponseNext(r)
        ELSE IF IsDirRewrite(pathname, subdomain)
        THEN ResponseRewrite(DirRewriteUrl(url, pathname))
        ELSE IF IsBareSlugRedirect(pathname, subdomain)
        THEN ResponseRedirect(BareSlugTargetUrl(r, host, hostname), 308)
        ELSE IF IsSubdomainRewrite(pathname, targetPath)
        THEN ResponseRewrite(SubdomainRewriteUrl(url, pathname, targetPath))
        ELSE ResponseNext(r)

(***************************************************************************)
(* SlugCodec / SeoPathBuilder: seo slug utilities                          *)
(* Names and slugs are sequences of characters; null is the value Null.    *)
(***************************************************************************)
Null == << "null" >>

LowerCase(c) == IF c = "B" THEN "b" ELSE c

IsWhitespace(c) == c = " "

\* the characters of [a-z0-9\s-] that occur in the modelled names
IsSlugSafe(c) == c \in { "a", "b", "i", "n", "0", " ", "-" }

\* value.trim()
RECURSIVE TrimLeft(_)
TrimLeft(s) ==
    IF s # << >> /\ IsWhitespace(Head(s)) THEN TrimLeft(Tail(s)) ELSE s

RECURSIVE TrimRight(_)
TrimRight(s) ==
    IF s # << >> /\ IsWhitespace(s[Len(s)])
    THEN TrimRight(SubSeq(s, 1, Len(s) - 1)) ELSE s

Trim(s) == TrimRight(TrimLeft(s))

\* .toLowerCase()
ToLowerCase(s) == [ i \in 1..Len(s) |-> LowerCase(s[i]) ]

\* .replace(/[^a-z0-9\s-]/g, '')
RemoveSpecial(s) == SelectSeq(s, IsSlugSafe)

\* .replace(/\s+/g, '-') : every maximal run of whitespace becomes one hyphen
RECURSIVE SpacesToHyphen(_)
SpacesToHyphen(s) ==
    IF s = << >> THEN << >>
    ELSE IF IsWhitespace(Head(s))
    THEN << "-" >> \o SpacesToHyphen(TrimLeft(s))
    ELSE << Head(s) >> \o SpacesToHyphen(Tail(s))

\* .replace(/-+/g, '-')
RECURSIVE CollapseHyphens(_)
CollapseHyphens(s) ==
    IF Len(s) <= 1 THEN s
    ELSE IF s[1] = "-" /\ s[2] = "-" THEN CollapseHyphens(Tail(s))
    ELSE << s[1] >> \o CollapseHyphens(Tail(s))

\* .replace(/^-+|-+$/g, '')
RECURSIVE StripHyphens(_)
StripHyphens(s) ==
    IF s # << >> /\ Head(s) = "-" THEN StripHyphens(Tail(s))
    ELSE IF s # << >> /\ s[Len(s)] = "-"
    THEN StripHyphens(SubSeq(s, 1, Len(s) - 1))
    ELSE s

\* variant: hyphens are collapsed before the spaces become hyphens
toSlug_CollapseFirst(value) ==
    StripHyphens(SpacesToHyphen(CollapseHyphens(
        RemoveSpecial(ToLowerCase(Trim(value))))))

toSlug(value) ==
    StripHyphens(CollapseHyphens(SpacesToHyphen(
        RemoveSpecial(ToLowerCase(Trim(value))))))

\* JavaScript truthiness of a string | null
Truthy(v) == v # Null /\ v # << >>

DirectoryPrefix == << "/", "directory", "/" >>

\* variant: a city without a state still gives a combined path
buildDirectorySeoPath_PartialLocation(opts) ==
    LET serviceSlug == IF Truthy(opts.serviceName) THEN toSlug(opts.serviceName) ELSE Null
        citySlug    == IF Truthy(opts.cityName) THEN toSlug(opts.cityName) ELSE Null
        stateSlug   == IF Truthy(opts.stateName) THEN toSlug(opts.stateName) ELSE Null
    IN  IF Truthy(serviceSlug) /\ Truthy(citySlug) /\ Truthy(stateSlug)
        THEN DirectoryPrefix \o serviceSlug \o << "-", "i", "n", "-" >>
                 \o citySlug \o << "-" >> \o stateSlug
        ELSE IF Truthy(serviceSlug) /\ Truthy(citySlug)
        THEN DirectoryPrefix \o serviceSlug \o << "-", "i", "n", "-" >> \o citySlug
        ELSE IF Truthy(serviceSlug)
        THEN DirectoryPrefix \o serviceSlug
        ELSE Null

buildDirectorySeoPath(opts) ==
    LET serviceSlug == IF Truthy(opts.serviceName) THEN toSlug(opts.serviceName) ELSE Null
        citySlug    == IF Truthy(opts.cityName) THEN toSlug(opts.cityName) ELSE Null
        stateSlug   == IF Truthy(opts.stateName) THEN toSlug(opts.stateName) ELSE Null
    IN  IF Truthy(serviceSlug) /\ Truthy(citySlug) /\ Truthy(stateSlug)
        THEN DirectoryPrefix \o serviceSlug \o << "-", "i", "n", "-" >>
                 \o citySlug \o << "-" >> \o stateSlug
        ELSE IF Truthy(serviceSlug)
        THEN DirectoryPrefix \o serviceSlug
        ELSE Null

(***************************************************************************)
(* SeoPathParser: the catch-all directory route                           *)
(***************************************************************************)
\* x || null
OrNull(x) == IF x = << >> THEN Null ELSE x

\* variant: with three or more tokens only the last one is the state
ParseLocation_LastTokenState(locationPart) ==
    LET parts == Split(locationPart, << "-" >>)
        n == Len(parts)
    IN  IF n >= 3
        THEN [ citySlug  |-> OrNull(Join(SubSeq(parts, 1, n - 1), << "-" >>)),
               stateSlug |-> parts[n] ]
        ELSE IF n = 2
        THEN [ citySlug |-> parts[1], stateSlug |-> parts[2] ]
        ELSE IF n = 1
        THEN [ citySlug |-> parts[1], stateSlug |-> Null ]
        ELSE [ citySlug |-> Null, stateSlug |-> Null ]

\* the city / state of a location part, by the number of its tokens
ParseLocation(locationPart) ==
    LET parts == Split(locationPart, << "-" >>)
        n == Len(parts)
    IN  IF n >= 3
        THEN [ citySlug  |-> OrNull(Join(SubSeq(parts, 1, n - 2), << "-" >>)),
               stateSlug |-> Join(SubSeq(parts, n - 1, n), << "-" >>) ]
        ELSE IF n = 2
        THEN [ citySlug |-> parts[1], stateSlug |-> parts[2] ]
        ELSE IF n = 1
        THEN [ citySlug |-> parts[1], stateSlug |-> Null ]
        ELSE [ citySlug |-> Null, stateSlug |-> Null ]

InMarker == << "-", "i", "n", "-" >>

parseSeoSlug(slugArray) ==
    LET slug == Join(slugArray, << "-" >>)
    IN  IF Includes(slug, InMarker)
        THEN LET pieces == Split(slug, InMarker)
                 servicePart == pieces[1]
                 locationPart == pieces[2]
                 loc == ParseLocation(locationPart)
             IN  [ serviceSlug |-> servicePart,
                   citySlug    |-> loc.citySlug,
                   stateSlug   |-> loc.stateSlug ]
        ELSE [ serviceSlug |-> slug, citySlug |-> Null, stateSlug |-> Null ]

(***************************************************************************)
(* DirectoryPage: titles derived from the pathname                         *)
(***************************************************************************)
UpperCase(c) ==
    IF c = "a" THEN "A" ELSE IF c = "b" THEN "B"
    ELSE IF c = "i" THEN "I" ELSE IF c = "n" THEN "N" ELSE c

\* part.charAt(0).toUpperCase() + part.slice(1).toLowerCase()
Capitalise(part) == << UpperCase(part[1]) >> \o ToLowerCase(Tail(part))

\* .filter(Boolean) on the pieces of a split
NonEmptyParts(parts) == SelectSeq(parts, LAMBDA part : part # << >>)

slugToTitle(slug) ==
    IF ~Truthy(slug) THEN Null
    ELSE LET parts == NonEmptyParts(Split(slug, << "-" >>))
         IN  Join([ k \in 1..Len(parts) |-> Capitalise(parts[k]) ], << " " >>)

\* .replace(/^\/+/, '')
StripLeadingSlashes(s) ==
    LET slashes == { k \in 0..Len(s) : \A j \in 1..k : s[j] = "/" }
        n == CHOOSE k \in slashes : \A m \in slashes : m <= k
    IN  SubSeq(s, n + 1, Len(s))

NoTitles == [ service |-> Null, city |-> Null, state |-> Null ]

\* pathnameStateTitle / pathnameCityTitle of a location's segments
PathnameLocation(segments) ==
    LET n == Len(segments)
    IN  IF n >= 2
        THEN LET stateSlug == Join(SubSeq(segments, n - 1, n), << "-" >>)
                 citySlug  == Join(SubSeq(segments, 1, n - 2), << "-" >>)
             IN  [ state |-> slugToTitle(stateSlug),
                   city  |-> slugToTitle(IF citySlug # << >> THEN citySlug
                                         ELSE segments[1]) ]
        ELSE IF n = 1
        THEN [ state |-> Null, city |-> slugToTitle(segments[1]) ]
        ELSE [ state |-> Null, city |-> Null ]

\* pathnameServiceTitle, pathnameCityTitle, pathnameStateTitle
PathnameTitles(pathname) ==
    IF pathname = Null \/ ~StartsWith(pathname, DirectoryPrefix) THEN NoTitles
    ELSE LET raw == StripLeadingSlashes(
                        SubSeq(pathname, Len(DirectoryPrefix) + 1, Len(pathname)))
             pieces == Split(raw, InMarker)
             servicePart == At(pieces, 0)
             locationPart == At(pieces, 1)
             loc == PathnameLocation(
                        NonEmptyParts(Split(locationPart, << "-" >>)))
         IN  IF raw = << >> THEN NoTitles
             ELSE [ service |-> IF servicePart # << >>
                                THEN slugToTitle(servicePart) ELSE Null,
                    city  |-> IF locationPart # << >> THEN loc.city ELSE Null,
                    state |-> IF locationPart # << >> THEN loc.state ELSE Null ]

\* a || b on titles
OrElse(a, b) == IF Truthy(a) THEN a ELSE b

\* serviceTitle, cityTitle, stateTitle of the render at mount (categoryPath
\* still holds its initial serviceName: null); the initial slugs are the
\* triple the route got from parseSeoSlug
DirectoryPageTitles(pathname, triple) ==
    LET fromPath == PathnameTitles(pathname)
    IN  [ service |-> OrElse(OrElse(fromPath.service,
                                    slugToTitle(triple.serviceSlug)), Null),
          city    |-> OrElse(fromPath.city, slugToTitle(triple.citySlug)),
          state   |-> OrElse(fromPath.state, slugToTitle(triple.stateSlug)) ]

\* usePathname() for the segments of the catch-all route
PathnameOf(segs) == DirectoryPrefix \o Join(segs, << "/" >>)

(***************************************************************************)
(* CategoryResolver                                                        *)
(***************************************************************************)
\* name.toLowerCase().trim()
Normalise(name) == Trim(ToLowerCase(name))

\* subCategories.find(sub => normalised sub.name = normalizedService):
\* the position of the first such subcategory, 0 when there is none
FindSubCategory(subCategories, normalizedService) ==
    LET hits == { j \in 1..Len(subCategories) :
                      Normalise(subCategories[j]) = normalizedService }
    IN  IF hits = {} THEN 0 ELSE CHOOSE j \in hits : \A h \in hits : j <= h

\* variant: the name comes back normalised when nothing matches
NoMatch_Normalised(serviceName) ==
    [ headCategory |-> Null, microCategory |-> Null,
      serviceName |-> Normalise(serviceName) ]

\* the return after the loop: service not found in the hierarchy
NoMatch(serviceName) ==
    [ headCategory |-> Null, microCategory |-> Null,
      serviceName |-> serviceName ]

\* the loop over the categories, from the k-th on
RECURSIVE ResolveFrom(_, _, _)
ResolveFrom(serviceName, categories, k) ==
    IF k > Len(categories) THEN NoMatch(serviceName)
    ELSE LET category == categories[k]
             normalizedService == Normalise(serviceName)
             found == FindSubCategory(category.subCategories, normalizedService)
         IN  IF Normalise(category.name) = normalizedService
             THEN [ headCategory |-> category.name, microCategory |-> Null,
                    serviceName |-> serviceName ]
             ELSE IF found # 0
             THEN [ headCategory |-> category.name,
                    microCategory |-> category.subCategories[found],
                    serviceName |-> serviceName ]
             ELSE ResolveFrom(serviceName, categories, k + 1)

resolveCategoryPathForService(serviceName, categories) ==
    IF ~Truthy(serviceName) \/ categories = << >>
    THEN [ headCategory |-> Null, microCategory |-> Null,
           serviceName |-> OrNull(serviceName) ]
    ELSE ResolveFrom(serviceName, categories, 1)

(***************************************************************************)
(* Requests the router is exercised with                                   *)
(***************************************************************************)
RECURSIVE SeqsUpTo(_, _)
SeqsUpTo(S, n) ==
    IF n = 0 THEN { << >> }
    ELSE LET shorter == SeqsUpTo(S, n - 1)
         IN  shorter \cup { Append(s, a) : s \in shorter, a \in S }

HostLabels == { "vendor", "buyer", "emp", "dir", "man", "www", "shop" }
BaseDomains == { MAIN_DOMAIN, << "localhost" >> }
Ports == { << >>, << ":", "3000" >> }

\* {sub}.{base}[:port], the bare base domain, and a request without Host header
Hosts ==
    { << l, "." >> \o b \o p : l \in HostLabels, b \in BaseDomains, p \in Ports }
      \cup { b \o p : b \in BaseDomains, p \in Ports }
      \cup { << >> }

\* ports the server itself may be addressed on (the port of req.nextUrl)
UrlPorts == { << >>, << "3000" >> }

PathWords ==
    { "directory", "api", "_next", "dashboard", "auth", "static", "assets",
      "favicon", "vendor", "buyer", "employee", "management", "land-surveyors" }

PathHeads ==
    { << "/" >> }
      \cup { << "/", w >> : w \in PathWords }
      \cup { << "/", w, "x" >> : w \in PathWords }
      \cup { << "/", "auth", "/", w >> : w \in { "vendor", "user" } }
      \cup { << "/", "auth", "/", w, "/" >> : w \in { "vendor", "user" } }

\* a URL pathname is normalised: it has no '.' or '..' segment
IsNormalised(p) ==
    \A i \in 1..Len(Split(p, << "/" >>)) :
        Split(p, << "/" >>)[i] \notin { << "." >>, << ".", "." >> }

Paths ==
    { p \in { h \o t : h \in PathHeads,
                       t \in SeqsUpTo({ "/", ".", "x" }, MaxTail) } :
        IsNormalised(p) }

NoReq  == [ host |-> << >>, urlPort |-> << >>, path |-> << "/" >> ]
NoResp == [ kind |-> "none", status |-> 0, url |-> NextUrl(NoReq) ]

(***************************************************************************)
(* Names the SEO path builder is exercised with                            *)
(***************************************************************************)
NameWords == { << "a" >>, << "i", "n" >>, << "B" >>, << "&" >> }

\* names of 1..n words separated by single spaces
RECURSIVE NamesOf(_)
NamesOf(n) ==
    IF n = 0 THEN { }
    ELSE IF n = 1 THEN NameWords
    ELSE LET shorter == NamesOf(n - 1)
         IN  shorter \cup { s \o << " " >> \o w : s \in shorter, w \in NameWords }

ServiceNames == NamesOf(MaxServiceWords) \cup { Null }
PlaceNames == NamesOf(MaxPlaceWords) \cup { Null }
CityNames == NamesOf(MaxCityWords) \cup { Null }

\* segments of a visited URL: slug tokens, the empty segment included
SlugTokens == { << "a" >>, << "b" >>, << "i", "n" >>, << >> }

SeoSegmentLists == SeqsUpTo(SlugTokens, MaxSlugTokens)

\* texts handed to toSlug: letters of both cases, a digit, spaces, hyphens
\* and a special character, in any order
TextChars == { "a", "B", "0", " ", "-", "&" }

Texts == SeqsUpTo(TextChars, MaxText)

\* category and subcategory names, differing in case and outer whitespace
CategoryNames == { << "a" >>, << "b" >>, << "B", " " >> }

Categories ==
    [ name : CategoryNames,
      subCategories : SeqsUpTo(CategoryNames, MaxSubCategories) ]

Catalogs == SeqsUpTo(Categories, MaxCategories)

\* service names looked up: none, the empty string, names of the catalog
\* in another spelling, and a name no catalog holds
LookupNames == { Null, << >>, << "a" >>, << "b" >>, << " ", "B" >>, << "0" >> }

NoCategoryPath == [ headCategory |-> Null, microCategory |-> Null,
                    serviceName |-> Null ]

NoOpts == [ serviceName |-> Null, cityName |-> Null, stateName |-> Null ]
NoTriple == [ serviceSlug |-> Null, citySlug |-> Null, stateSlug |-> Null ]

(***************************************************************************)
(* useCitySuggestions                                                      *)
(* A name is a sequence holding one word; '' is << >>, null is Null.       *)
(***************************************************************************)
LowerWord(w) == IF w = "Patna" THEN "patna" ELSE IF w = "Gaya" THEN "gaya" ELSE w

\* name.toLowerCase()
LowerName(n) == [ i \in 1..Len(n) |-> LowerWord(n[i]) ]

\* providerCount: undefined
NoCount == -1

\* (c.providerCount || 0)
CountOf(c) == IF c.providerCount = NoCount THEN 0 ELSE c.providerCount

\* the sort comparator is negative: a goes before b
SortsBefore(a, b) ==
    \/ a.isCurrent /\ ~b.isCurrent
    \/ a.isCurrent = b.isCurrent /\ CountOf(b) - CountOf(a) < 0

\* c put into a sorted list, behind the elements it does not go before
InsertCity(sorted, c) ==
    LET firstAfter == { k \in 1..Len(sorted) : SortsBefore(c, sorted[k]) }
        at == IF firstAfter = { } THEN Len(sorted) + 1
              ELSE CHOOSE k \in firstAfter : \A m \in firstAfter : k <= m
    IN  SubSeq(sorted, 1, at - 1) \o << c >> \o SubSeq(sorted, at, Len(sorted))

\* cities.sort(...): Array.prototype.sort is stable
RECURSIVE SortCities(_)
SortCities(cities) ==
    IF cities = << >> THEN << >>
    ELSE InsertCity(SortCities(SubSeq(cities, 1, Len(cities) - 1)),
                    cities[Len(cities)])

\* { name, displayName: name, isCurrent: true }; displayName always equals
\* name and is left out of the records
CurrentCity(city) ==
    [ name |-> city, isCurrent |-> TRUE, providerCount |-> NoCount ]

\* the list set after a response: map, ensure the current city, sort
CitiesOfResponse(raw, city) ==
    LET cities == [ k \in 1..Len(raw) |->
                      [ name |-> raw[k].name,
                        isCurrent |-> Truthy(city)
                                      /\ LowerName(raw[k].name) = LowerName(city),
                        providerCount |-> raw[k].count ] ]
        missing == /\ Truthy(city)
                   /\ ~\E k \in 1..Len(cities) :
                          LowerName(cities[k].name) = LowerName(city)
    IN  SortCities(IF missing THEN << CurrentCity(city) >> \o cities
                   ELSE cities)

\* the list set in the catch block
CitiesOfFailure(city) ==
    IF Truthy(city) THEN << CurrentCity(city) >> ELSE << >>

StateProps == { Null, << "Bihar" >>, << "Goa" >> }
CityProps == { Null, << "Patna" >>, << "Gaya" >> }
CityItems ==
    [ name : { << "Patna" >>, << "patna" >>, << "Gaya" >> },
      count : { NoCount, 1 } ]
Payloads == SeqsUpTo(CityItems, MaxCities)

NoArgs == [ stateName |-> Null, cityName |-> Null ]

(***************************************************************************)
(* AuthGuard                                                               *)
(* The user of the store is "none" (no user), "allowed" (its normalised    *)
(* role passes the requiredRole / allowedRoles test) or "denied".          *)
(***************************************************************************)
\* setTimeout(..., 5000), in seconds
LoadingTimeoutSeconds == 5

Users == { "none", "allowed", "denied" }
AuthStates == [ loading : BOOLEAN, isAuthenticated : BOOLEAN, user : Users ]
NoAuth == [ loading |-> FALSE, isAuthenticated |-> FALSE, user |-> "none" ]

\* isRoleValid of the effect, isRoleAuthorized() of the render
IsRoleValid(user) == user = "allowed"

\* the redirect effect, run by a render whose loadingTimeout is lt:
\* the target it pushes, prev when it pushes nothing
GuardEffectPush(a, req_auth, lt, prev) ==
    IF ~a.loading \/ lt
    THEN IF req_auth /\ ~a.isAuthenticated THEN "redirectTo"
         ELSE IF a.isAuthenticated /\ a.user # "none" /\ ~IsRoleValid(a.user)
         THEN "/unauthorized"
         ELSE prev
    ELSE prev

\* what the component returns
GuardRenders(a, req_auth, lt) ==
    IF a.loading /\ ~lt THEN "loading"
    ELSE IF req_auth /\ ~a.isAuthenticated THEN "authRequired"
    ELSE IF a.user = "none" \/ ~IsRoleValid(a.user) THEN "accessDenied"
    ELSE "children"

(***************************************************************************)
(* Initial states                                                          *)
(***************************************************************************)
RouterIdle ==
    /\ phase = "idle"
    /\ req = NoReq
    /\ resp = NoResp
    /\ hops = 0

SeoIdle ==
    /\ seoPhase = "idle"
    /\ seoOpts = NoOpts
    /\ seoPath = Null
    /\ seoParams = << >>
    /\ seoTriple = NoTriple
    /\ seoTitles = NoTitles

\* auth: DirectoryPage's setIsAuthenticated(true) is queued
NoPending == [ open |-> "keep", submitted |-> FALSE, dismissed |-> FALSE,
               auth |-> FALSE ]

PopupIdle ==
    /\ storage = FALSE
    /\ mounted = FALSE
    /\ isOpen = FALSE
    /\ hasSubmitted = FALSE
    /\ hasDismissed = FALSE
    /\ pending = NoPending
    /\ enabledAutoOpen = FALSE
    /\ autoOpenDelayMs = 1
    /\ timer = -1
    /\ formTimer = "none"
    /\ viewAfterSubmit = FALSE
    /\ sessionDismissed = FALSE
    /\ viewAfterDismiss = FALSE
    /\ visitor = "none"
    /\ mountError = FALSE
    /\ timerAtUnmount = FALSE
    /\ openedBy = "none"
    /\ timerOpens = 0
    /\ lastOp = "none"

SlugIdle ==
    /\ slugPhase = "idle"
    /\ slugText = << >>
    /\ slugOnce = << >>
    /\ slugTwice = << >>

CategoryIdle ==
    /\ catPhase = "idle"
    /\ catService = Null
    /\ catalog = << >>
    /\ catPath = NoCategoryPath

CitiesIdle ==
    /\ sugMounted = FALSE
    /\ stateName = Null
    /\ cityName = Null
    /\ citySuggestions = << >>
    /\ isLoading = FALSE
    /\ inflight = { }
    /\ fetchCount = 0
    /\ shownFor = NoArgs

GuardIdle ==
    /\ guardMounted = FALSE
    /\ auth = NoAuth
    /\ requireAuth = TRUE
    /\ loadingTimeout = FALSE
    /\ guardPending = "none"
    /\ guardTimer = -1
    /\ guardView = "none"
    /\ pushed = "none"

Init ==
    /\ RouterIdle /\ SeoIdle /\ PopupIdle /\ SlugIdle /\ CategoryIdle
    /\ CitiesIdle
    /\ GuardIdle

(***************************************************************************)
(* SubdomainRouter actions                                                 *)
(***************************************************************************)
\* one inbound request is handled by middleware
Middleware ==
    /\ phase = "idle"
    /\ \E h \in Hosts, u \in UrlPorts, p \in Paths :
         LET r == [ host |-> h, urlPort |-> u, path |-> p ]
         IN  /\ req' = r
             /\ resp' = middleware(r)
    /\ phase' = "done"
    /\ hops' = 0
    /\ UNCHANGED << svars, pvars, kvars, cvars, uvars, gvars >>

\* the Host header a client sends for a URL: hostname[:port]
HostHeaderOf(url) ==
    url.hostname \o (IF url.port = << >> THEN << >> ELSE << ":" >> \o url.port)

\* the client follows a redirect: it requests the Location URL, and the
\* middleware handles that request like any other
FollowRedirect ==
    /\ phase = "done"
    /\ resp.kind = "redirect"
    /\ hops < MaxHops
    /\ \E u \in UrlPorts :
         LET r == [ host |-> HostHeaderOf(resp.url), urlPort |-> u,
                    path |-> resp.url.pathname ]
         IN  /\ req' = r
             /\ resp' = middleware(r)
    /\ hops' = hops + 1
    /\ UNCHANGED << phase, svars, pvars, kvars, cvars, uvars, gvars >>

\* the response is sent; the router is stateless across requests
Respond ==
    /\ phase = "done"
    /\ phase' = "idle"
    /\ req' = NoReq
    /\ resp' = NoResp
    /\ hops' = 0
    /\ UNCHANGED << svars, pvars, kvars, cvars, uvars, gvars >>

NextRouter == Middleware \/ FollowRedirect \/ Respond

SpecRouter == Init /\ [][NextRouter]_vars

(***************************************************************************)
(* SEO path actions                                                        *)
(***************************************************************************)
\* handleStructuredSearch: the page builds the SEO path of a search
HandleStructuredSearch ==
    /\ seoPhase = "idle"
    /\ \E s \in ServiceNames, c \in CityNames, st \in PlaceNames :
         LET opts == [ serviceName |-> s, cityName |-> c, stateName |-> st ]
         IN  /\ seoOpts' = opts
             /\ seoPath' = buildDirectorySeoPath(opts)
    /\ seoPhase' = "built"
    /\ seoParams' = << >>
    /\ seoTriple' = NoTriple
    /\ seoTitles' = NoTitles
    /\ UNCHANGED << rvars, pvars, kvars, cvars, uvars, gvars >>

\* router.push(seoPath): the catch-all route parses the path just built,
\* i.e. its part after '/directory/', split on '-'
DirectorySeoPage ==
    /\ seoPhase = "built"
    /\ seoPath # Null
    /\ seoParams' = Split(At(Split(seoPath, DirectoryPrefix), 1), << "-" >>)
    /\ seoTriple' = parseSeoSlug(seoParams')
    /\ seoTitles' = DirectoryPageTitles(seoPath, seoTriple')
    /\ seoPhase' = "parsed"
    /\ UNCHANGED << seoOpts, seoPath >>
    /\ UNCHANGED << rvars, pvars, kvars, cvars, uvars, gvars >>

\* no SEO path (fallback search), or the page is left
LeaveSeoPage ==
    /\ seoPhase \in { "built", "parsed", "visited" }
    /\ seoPhase' = "idle"
    /\ seoOpts' = NoOpts
    /\ seoPath' = Null
    /\ seoParams' = << >>
    /\ seoTriple' = NoTriple
    /\ seoTitles' = NoTitles
    /\ UNCHANGED << rvars, pvars, kvars, cvars, uvars, gvars >>

\* a directory URL is visited directly: the catch-all route hands its
\* segments (seoParams ?? []) to parseSeoSlug
VisitSeoUrl ==
    /\ seoPhase = "idle"
    /\ \E segs \in SeoSegmentLists :
         /\ seoParams' = segs
         /\ seoTriple' = parseSeoSlug(segs)
         /\ seoTitles' = DirectoryPageTitles(PathnameOf(segs), seoTriple')
    /\ seoPhase' = "visited"
    /\ UNCHANGED << seoOpts, seoPath >>
    /\ UNCHANGED << rvars, pvars, kvars, cvars, uvars, gvars >>

NextSeo ==
    HandleStructuredSearch \/ DirectorySeoPage \/ VisitSeoUrl \/ LeaveSeoPage

SpecSeo == Init /\ [][NextSeo]_vars

(***************************************************************************)
(* SlugCodec: toSlug applied to a text, and again to its own result        *)
(***************************************************************************)
ToSlug ==
    /\ slugPhase = "idle"
    /\ \E text \in Texts :
         /\ slugText' = text
         /\ slugOnce' = toSlug(text)
    /\ slugPhase' = "once"
    /\ UNCHANGED slugTwice
    /\ UNCHANGED << rvars, svars, pvars, cvars, uvars, gvars >>

ToSlugAgain ==
    /\ slugPhase = "once"
    /\ slugTwice' = toSlug(slugOnce)
    /\ slugPhase' = "twice"
    /\ UNCHANGED << slugText, slugOnce >>
    /\ UNCHANGED << rvars, svars, pvars, cvars, uvars, gvars >>

\* the results are dropped; the next call takes another text
ForgetSlug ==
    /\ slugPhase = "twice"
    /\ slugPhase' = "idle"
    /\ slugText' = << >>
    /\ slugOnce' = << >>
    /\ slugTwice' = << >>
    /\ UNCHANGED << rvars, svars, pvars, cvars, uvars, gvars >>

NextSlug == ToSlug \/ ToSlugAgain \/ ForgetSlug

SpecSlug == Init /\ [][NextSlug]_vars

(***************************************************************************)
(* CategoryResolver: the directory page resolves the service of its slug   *)
(***************************************************************************)
ResolveCategoryPath ==
    /\ catPhase = "idle"
    /\ \E name \in LookupNames, cats \in Catalogs :
         /\ catService' = name
         /\ catalog' = cats
         /\ catPath' = resolveCategoryPathForService(name, cats)
    /\ catPhase' = "resolved"
    /\ UNCHANGED << rvars, svars, pvars, kvars, uvars, gvars >>

\* the page is left; the next one resolves another service
ForgetCategoryPath ==
    /\ catPhase = "resolved"
    /\ catPhase' = "idle"
    /\ catService' = Null
    /\ catalog' = << >>
    /\ catPath' = NoCategoryPath
    /\ UNCHANGED << rvars, svars, pvars, kvars, uvars, gvars >>

NextCategory == ResolveCategoryPath \/ ForgetCategoryPath

SpecCategory == Init /\ [][NextCategory]_vars

(***************************************************************************)
(* useCitySuggestions actions                                              *)
(***************************************************************************)
\* the effect on [stateName, cityName], run with arguments st and c
CityEffect(st, c) ==
    IF ~Truthy(st)
    THEN /\ citySuggestions' = << >>
         /\ shownFor' = [ stateName |-> st, cityName |-> c ]
         /\ UNCHANGED << isLoading, inflight, fetchCount >>
    ELSE /\ fetchCount < MaxFetches
         /\ isLoading' = TRUE
         /\ fetchCount' = fetchCount + 1
         /\ inflight' = inflight \cup
                { [ id |-> fetchCount + 1, stateName |-> st, cityName |-> c ] }
         /\ UNCHANGED << citySuggestions, shownFor >>

\* first render of a component calling useCitySuggestions(st, c)
UseCitySuggestions ==
    /\ ~sugMounted
    /\ sugMounted' = TRUE
    /\ \E st \in StateProps, c \in CityProps :
         /\ stateName' = st
         /\ cityName' = c
         /\ CityEffect(st, c)
    /\ UNCHANGED << rvars, svars, pvars, kvars, cvars, gvars >>

\* a re-render with another stateName or cityName
CityArgsChange ==
    /\ sugMounted
    /\ \E st \in StateProps, c \in CityProps :
         /\ << st, c >> # << stateName, cityName >>
         /\ stateName' = st
         /\ cityName' = c
         /\ CityEffect(st, c)
    /\ UNCHANGED sugMounted
    /\ UNCHANGED << rvars, svars, pvars, kvars, cvars, gvars >>

\* api.get resolves for one of the fetches in flight
FetchResolves ==
    /\ sugMounted
    /\ \E f \in inflight, raw \in Payloads :
         /\ citySuggestions' = CitiesOfResponse(raw, f.cityName)
         /\ shownFor' = [ stateName |-> f.stateName, cityName |-> f.cityName ]
         /\ inflight' = inflight \ { f }
    /\ isLoading' = FALSE
    /\ UNCHANGED << sugMounted, stateName, cityName, fetchCount >>
    /\ UNCHANGED << rvars, svars, pvars, kvars, cvars, gvars >>

\* api.get rejects for one of the fetches in flight
FetchRejects ==
    /\ sugMounted
    /\ \E f \in inflight :
         /\ citySuggestions' = CitiesOfFailure(f.cityName)
         /\ shownFor' = [ stateName |-> f.stateName, cityName |-> f.cityName ]
         /\ inflight' = inflight \ { f }
    /\ isLoading' = FALSE
    /\ UNCHANGED << sugMounted, stateName, cityName, fetchCount >>
    /\ UNCHANGED << rvars, svars, pvars, kvars, cvars, gvars >>

\* the component is unmounted; a fetch still in flight completes into a
\* state nobody renders
LeaveCitySuggestions ==
    /\ sugMounted
    /\ sugMounted' = FALSE
    /\ stateName' = Null
    /\ cityName' = Null
    /\ citySuggestions' = << >>
    /\ isLoading' = FALSE
    /\ inflight' = { }
    /\ fetchCount' = 0
    /\ shownFor' = NoArgs
    /\ UNCHANGED << rvars, svars, pvars, kvars, cvars, gvars >>

NextCities ==
    \/ UseCitySuggestions \/ CityArgsChange \/ FetchResolves \/ FetchRejects
    \/ LeaveCitySuggestions

SpecCities == Init /\ [][NextCities]_vars

(***************************************************************************)
(* AuthGuard actions                                                       *)
(* setLoadingTimeout queues an update that GuardRender commits; a render   *)
(* re-runs an effect only when one of its dependencies changed.            *)
(***************************************************************************)
\* first render and both effects
GuardMount ==
    /\ ~guardMounted
    /\ guardMounted' = TRUE
    /\ \E a \in AuthStates, r \in BOOLEAN :
         /\ auth' = a
         /\ requireAuth' = r
         /\ guardTimer' = IF a.loading THEN LoadingTimeoutSeconds ELSE -1
         /\ guardView' = GuardRenders(a, r, FALSE)
         /\ pushed' = GuardEffectPush(a, r, FALSE, "none")
    /\ loadingTimeout' = FALSE
    /\ guardPending' = "none"
    /\ UNCHANGED << rvars, svars, pvars, kvars, cvars, uvars >>

\* the store's auth slice changes: re-render; the timeout effect re-runs
\* when loading changed, the redirect effect re-runs
AuthChange ==
    /\ guardMounted
    /\ guardPending = "none"
    /\ \E a \in AuthStates :
         /\ a # auth
         /\ auth' = a
         /\ guardView' = GuardRenders(a, requireAuth, loadingTimeout)
         /\ pushed' = GuardEffectPush(a, requireAuth, loadingTimeout, pushed)
         /\ IF a.loading = auth.loading
            THEN UNCHANGED << guardTimer, guardPending >>
            ELSE IF a.loading
            THEN guardTimer' = LoadingTimeoutSeconds /\ UNCHANGED guardPending
            ELSE /\ guardTimer' = -1
                 /\ guardPending' = IF loadingTimeout THEN "false" ELSE "none"
    /\ UNCHANGED << guardMounted, requireAuth, loadingTimeout >>
    /\ UNCHANGED << rvars, svars, pvars, kvars, cvars, uvars >>

\* the parent re-renders the guard with new props (requireAuth, or a new
\* allowedRoles array): the redirect effect re-runs
GuardPropsChange ==
    /\ guardMounted
    /\ guardPending = "none"
    /\ \E r \in BOOLEAN :
         /\ requireAuth' = r
         /\ guardView' = GuardRenders(auth, r, loadingTimeout)
         /\ pushed' = GuardEffectPush(auth, r, loadingTimeout, pushed)
    /\ UNCHANGED << guardMounted, auth, loadingTimeout, guardPending, guardTimer >>
    /\ UNCHANGED << rvars, svars, pvars, kvars, cvars, uvars >>

\* one second passes
GuardTick ==
    /\ guardTimer > 0
    /\ guardPending = "none"
    /\ guardTimer' = guardTimer - 1
    /\ UNCHANGED << guardMounted, auth, requireAuth, loadingTimeout,
                    guardPending, guardView, pushed >>
    /\ UNCHANGED << rvars, svars, pvars, kvars, cvars, uvars >>

\* the timeout callback: setLoadingTimeout(true)
GuardTimerFire ==
    /\ guardTimer = 0
    /\ guardTimer' = -1
    /\ guardPending' = "true"
    /\ UNCHANGED << guardMounted, auth, requireAuth, loadingTimeout,
                    guardView, pushed >>
    /\ UNCHANGED << rvars, svars, pvars, kvars, cvars, uvars >>

\* the redirect effect at a render that only committed loadingTimeout:
\* none of its dependencies changed, it does not run
PushAfterTimeoutRender(a, req_auth, lt, prev) == prev

\* the queued loadingTimeout is rendered
GuardRender ==
    /\ guardMounted
    /\ guardPending # "none"
    /\ loadingTimeout' = (guardPending = "true")
    /\ guardPending' = "none"
    /\ guardView' = GuardRenders(auth, requireAuth, loadingTimeout')
    /\ pushed' = PushAfterTimeoutRender(auth, requireAuth, loadingTimeout', pushed)
    /\ UNCHANGED << guardMounted, auth, requireAuth, guardTimer >>
    /\ UNCHANGED << rvars, svars, pvars, kvars, cvars, uvars >>

\* the guard is unmounted (the route is left); the cleanup clears the timer
GuardUnmount ==
    /\ guardMounted
    /\ guardMounted' = FALSE
    /\ auth' = NoAuth
    /\ requireAuth' = TRUE
    /\ loadingTimeout' = FALSE
    /\ guardPending' = "none"
    /\ guardTimer' = -1
    /\ guardView' = "none"
    /\ pushed' = "none"
    /\ UNCHANGED << rvars, svars, pvars, kvars, cvars, uvars >>

NextGuard ==
    \/ GuardMount \/ AuthChange \/ GuardPropsChange \/ GuardTick
    \/ GuardTimerFire \/ GuardRender \/ GuardUnmount

SpecGuard == Init /\ [][NextGuard]_vars

\* time passes, timers fire and React renders queued updates
SpecGuardFair ==
    /\ SpecGuard
    /\ WF_vars(GuardTick) /\ WF_vars(GuardTimerFire) /\ WF_vars(GuardRender)

(***************************************************************************)
(* LeadPopupScheduler: useLeadPopup                                        *)
(*                                                                         *)
(* A setState call queues an update (pending); the Render step commits the *)
(* queued updates and runs the auto-open effect when one of its            *)
(* dependencies changed.  Time advances in ticks; a delay is at least one  *)
(* tick and React commits a queued update before the next tick.            *)
(***************************************************************************)
\* variant: the stored flag is not read at mount
ReadSubmitted_Ignored(store) == FALSE

\* sessionStorage.getItem(POPUP_SUBMITTED_KEY) is truthy
ReadSubmitted(store) == store

\* variant: a dismissal does not stop the scheduling
ShouldSchedule_IgnoreDismissed(enabled, submitted, dismissed) ==
    ~(~enabled \/ submitted)

\* guard of the auto-open effect: the timer is scheduled
ShouldSchedule(enabled, submitted, dismissed) ==
    ~(~enabled \/ submitted \/ dismissed)

\* the auto-open effect run against the rendered values: the timeout it arms
AutoOpenEffect(enabled, submitted, dismissed, delay) ==
    IF ShouldSchedule(enabled, submitted, dismissed) THEN delay ELSE -1

\* setIsOpen(true), from the timer callback or from openPopup
QueueOpen(q, cause) ==
    [ q EXCEPT !.open = IF @ \in { "timer", "manual" } THEN @ ELSE cause ]

\* variant: closePopup only closes
QueueClose_NoDismiss(q) == [ q EXCEPT !.open = "close" ]

\* the queued updates of closePopup
QueueClose(q) == [ q EXCEPT !.open = "close", !.dismissed = TRUE ]

\* the queued updates of markAsSubmitted
QueueSubmitted(q) == [ q EXCEPT !.open = "close", !.submitted = TRUE ]

Visitors == { "none", "guest", "member" }

\* DirectoryPage's first render: isAuthenticated is still useState(false),
\* so enabledAutoOpen = !isAuthenticated is true
FirstRenderEnabled == TRUE

\* variant: the auth check of the mount effect is lost
AuthServiceIsAuthenticated_Never(v) == FALSE

\* authService.isAuthenticated() in DirectoryPage's mount effect
AuthServiceIsAuthenticated(v) == v = "member"

\* the mount effect's sessionStorage.getItem throws (storage access denied):
\* nothing catches it, React tears the view down and the error surfaces
MountReadFails ==
    /\ ~mounted
    /\ mountError' = TRUE
    /\ lastOp' = "mountFailed"
    /\ UNCHANGED << storage, mounted, isOpen, hasSubmitted, hasDismissed,
                    pending, enabledAutoOpen, autoOpenDelayMs, timer,
                    formTimer, viewAfterSubmit, sessionDismissed,
                    viewAfterDismiss, visitor, timerAtUnmount, openedBy,
                    timerOpens >>

\* variant: the cleanup leaves the timeout armed
ClearTimer_Leak(t) == t

\* the effect cleanup: clearTimeout(timerRef.current)
ClearTimer(t) == -1

\* variant: a dismissal of an earlier page view is remembered
InitialDismissed_Remembered(earlier) == earlier

\* useState(false): a page view starts undismissed, whatever happened
\* earlier in the session
InitialDismissed(earlier) == FALSE

\* first render of a page view and its two mount effects
Mount ==
    /\ ~mounted
    /\ \E e \in BOOLEAN, d \in 1..MaxDelay, v \in Visitors :
         /\ v # "none" => e = FirstRenderEnabled
         /\ enabledAutoOpen' = e
         /\ autoOpenDelayMs' = d
         /\ timer' = AutoOpenEffect(e, FALSE,
                                    InitialDismissed(sessionDismissed), d)
         /\ visitor' = v
         /\ pending' = [ NoPending EXCEPT
                           !.submitted = ReadSubmitted(storage),
                           !.auth = AuthServiceIsAuthenticated(v) ]
    /\ mountError' = FALSE
    /\ timerAtUnmount' = FALSE
    /\ mounted' = TRUE
    /\ isOpen' = FALSE
    /\ hasSubmitted' = FALSE
    /\ hasDismissed' = InitialDismissed(sessionDismissed)
    /\ viewAfterSubmit' = storage
    /\ viewAfterDismiss' = sessionDismissed
    /\ openedBy' = "none"
    /\ timerOpens' = 0
    /\ lastOp' = "mount"
    /\ UNCHANGED << storage, formTimer, sessionDismissed >>

\* a render with option enabledAutoOpen = e: commits the queued updates,
\* then cleans up and re-runs the auto-open effect if a dependency changed
RenderWith(e) ==
    LET newOpen == IF pending.open = "keep" THEN isOpen
                   ELSE pending.open \in { "timer", "manual" }
        newSubmitted == hasSubmitted \/ pending.submitted
        newDismissed == hasDismissed \/ pending.dismissed
        depsChanged == \/ e # enabledAutoOpen
                       \/ newSubmitted # hasSubmitted
                       \/ newDismissed # hasDismissed
        opened == ~isOpen /\ newOpen
    IN  /\ isOpen' = newOpen
        /\ hasSubmitted' = newSubmitted
        /\ hasDismissed' = newDismissed
        /\ enabledAutoOpen' = e
        /\ pending' = NoPending
        /\ timer' = IF depsChanged
                    THEN AutoOpenEffect(e, newSubmitted, newDismissed, autoOpenDelayMs)
                    ELSE timer
        /\ openedBy' = IF opened THEN pending.open ELSE openedBy
        /\ timerOpens' = IF opened /\ pending.open = "timer" /\ timerOpens < 2
                         THEN timerOpens + 1 ELSE timerOpens
        /\ UNCHANGED << storage, mounted, autoOpenDelayMs, formTimer,
                        viewAfterSubmit, sessionDismissed, viewAfterDismiss,
                        visitor, mountError, timerAtUnmount >>

\* React re-renders the view because updates are queued
Render ==
    /\ mounted
    /\ pending # NoPending
    /\ RenderWith(IF pending.auth THEN FALSE ELSE enabledAutoOpen)
    /\ lastOp' = "render"

\* the caller re-renders with another enabledAutoOpen (auth state changed)
PropChange ==
    /\ mounted
    /\ visitor = "none"
    /\ RenderWith(~enabledAutoOpen)
    /\ lastOp' = "propChange"

\* time passes while the timeout is armed
Tick ==
    /\ timer > 0
    /\ pending = NoPending
    /\ timer' = timer - 1
    /\ lastOp' = "tick"
    /\ UNCHANGED << visitor, mountError, timerAtUnmount >>
    /\ UNCHANGED << storage, mounted, isOpen, hasSubmitted, hasDismissed,
                    pending, enabledAutoOpen, autoOpenDelayMs, formTimer,
                    viewAfterSubmit, sessionDismissed, viewAfterDismiss,
                    openedBy, timerOpens >>

\* the timeout callback: setIsOpen(true)
TimerFire ==
    /\ timer = 0
    /\ timer' = -1
    /\ pending' = QueueOpen(pending, "timer")
    /\ lastOp' = "timer"
    /\ UNCHANGED << visitor, mountError, timerAtUnmount >>
    /\ UNCHANGED << storage, mounted, isOpen, hasSubmitted, hasDismissed,
                    enabledAutoOpen, autoOpenDelayMs, formTimer,
                    viewAfterSubmit, sessionDismissed, viewAfterDismiss,
                    openedBy, timerOpens >>

\* openPopup(), from a CTA button
OpenPopup ==
    /\ mounted
    /\ pending' = QueueOpen(pending, "manual")
    /\ lastOp' = "openPopup"
    /\ UNCHANGED << visitor, mountError, timerAtUnmount >>
    /\ UNCHANGED << storage, mounted, isOpen, hasSubmitted, hasDismissed,
                    enabledAutoOpen, autoOpenDelayMs, timer, formTimer,
                    viewAfterSubmit, sessionDismissed, viewAfterDismiss,
                    openedBy, timerOpens >>

\* closePopup(), from the backdrop or the close button of the open popup
ClosePopup ==
    /\ mounted
    /\ isOpen
    /\ pending' = QueueClose(pending)
    /\ sessionDismissed' = TRUE
    /\ lastOp' = "closePopup"
    /\ UNCHANGED << visitor, mountError, timerAtUnmount >>
    /\ UNCHANGED << storage, mounted, isOpen, hasSubmitted, hasDismissed,
                    enabledAutoOpen, autoOpenDelayMs, timer, formTimer,
                    viewAfterSubmit, viewAfterDismiss, openedBy,
                    timerOpens >>

\* the form of the open popup is submitted with success: it schedules its
\* delayed onSuccess callback
SubmitForm ==
    /\ mounted
    /\ isOpen
    /\ formTimer = "none"
    /\ formTimer' = "current"
    /\ lastOp' = "submitForm"
    /\ UNCHANGED << visitor, mountError, timerAtUnmount >>
    /\ UNCHANGED << storage, mounted, isOpen, hasSubmitted, hasDismissed,
                    pending, enabledAutoOpen, autoOpenDelayMs, timer,
                    viewAfterSubmit, sessionDismissed, viewAfterDismiss,
                    openedBy, timerOpens >>

\* the delayed callback runs markAsSubmitted() of the view that showed the form
MarkAsSubmitted ==
    /\ formTimer # "none"
    /\ formTimer' = "none"
    /\ storage' = TRUE
    /\ pending' = IF formTimer = "current" THEN QueueSubmitted(pending) ELSE pending
    /\ lastOp' = "markAsSubmitted"
    /\ UNCHANGED << visitor, mountError, timerAtUnmount >>
    /\ UNCHANGED << mounted, isOpen, hasSubmitted, hasDismissed,
                    enabledAutoOpen, autoOpenDelayMs, timer,
                    viewAfterSubmit, sessionDismissed, viewAfterDismiss,
                    openedBy, timerOpens >>

\* the page view is left: effect cleanup clears the timeout, state is dropped
Unmount ==
    /\ mounted
    /\ mounted' = FALSE
    /\ timer' = ClearTimer(timer)
    /\ isOpen' = FALSE
    /\ hasSubmitted' = FALSE
    /\ hasDismissed' = FALSE
    /\ pending' = NoPending
    /\ enabledAutoOpen' = FALSE
    /\ autoOpenDelayMs' = 1
    /\ formTimer' = IF formTimer = "current" THEN "stale" ELSE formTimer
    /\ viewAfterSubmit' = FALSE
    /\ viewAfterDismiss' = FALSE
    /\ openedBy' = "none"
    /\ timerOpens' = 0
    /\ visitor' = "none"
    /\ timerAtUnmount' = (timer >= 0)
    /\ lastOp' = "unmount"
    /\ UNCHANGED << storage, sessionDismissed, mountError >>

\* the browser session ends: sessionStorage is dropped
NewSession ==
    /\ ~mounted
    /\ storage \/ sessionDismissed
    /\ formTimer = "none"
    /\ storage' = FALSE
    /\ sessionDismissed' = FALSE
    /\ lastOp' = "newSession"
    /\ UNCHANGED << visitor, mountError, timerAtUnmount >>
    /\ UNCHANGED << mounted, isOpen, hasSubmitted, hasDismissed, pending,
                    enabledAutoOpen, autoOpenDelayMs, timer, formTimer,
                    viewAfterSubmit, viewAfterDismiss, openedBy,
                    timerOpens >>

NextPopup ==
    /\ \/ Mount \/ MountReadFails \/ Render \/ PropChange \/ Tick
       \/ TimerFire \/ OpenPopup \/ ClosePopup \/ SubmitForm \/ MarkAsSubmitted \/ Unmount \/ NewSession
    /\ UNCHANGED << rvars, svars, kvars, cvars, uvars, gvars >>

SpecPopup == Init /\ [][NextPopup]_vars

\* the event loop runs due callbacks and React commits queued updates
SpecPopupFair ==
    /\ SpecPopup
    /\ WF_vars(Tick /\ UNCHANGED << rvars, svars, kvars, cvars, uvars, gvars >>)
    /\ WF_vars(TimerFire /\ UNCHANGED << rvars, svars, kvars, cvars, uvars, gvars >>)
    /\ WF_vars(Render /\ UNCHANGED << rvars, svars, kvars, cvars, uvars, gvars >>)

(***************************************************************************)
(* Properties                                                              *)
(***************************************************************************)
Handled == phase = "done"

\* hosts {label}.{base}[:port] and the bare {base}[:port]
LabelHosts(l) == { << l, "." >> \o b \o p : b \in BaseDomains, p \in Ports }
BareHosts == { b \o p : b \in BaseDomains, p \in Ports }

\* the port the Host header carries, << >> when it carries none
HostPort(h) ==
    IF \E i \in 1..Len(h) : h[i] = ":" THEN << h[Len(h)] >> ELSE << >>

OnLocalhost(h) == \E i \in 1..Len(h) : h[i] = "localhost"

\* the path is prefix itself or lies under prefix/
Under(path, prefix) ==
    path = prefix \/ StartsWith(path, prefix \o << "/" >>)

DirHostnames == { << "dir", "." >> \o b : b \in BaseDomains }

RedirectedTo(label) ==
    /\ resp.kind = "redirect"
    /\ resp.url.pathname = req.path
    /\ resp.url.hostname \in { << label, "." >> \o b : b \in BaseDomains }
    /\ OnLocalhost(resp.url.hostname) <=> OnLocalhost(req.host)

\* C1: a request on the bare main domain or on www, for a path without file
\* extension that is not '/' and starts with no reserved main-domain prefix,
\* gets an HTTP 308 redirect to the same path on the dir subdomain.
C1_BareSlugRedirect ==
    ( /\ Handled
      /\ req.host \in BareHosts \cup LabelHosts("www")
      /\ ~HasFileExtension(req.path)
      /\ req.path # << "/" >>
      /\ \A prefix \in ReservedMainPrefixes : ~StartsWith(req.path, prefix) )
    => /\ RedirectedTo("dir")
       /\ resp.status = 308

\* the names the claim covers: a service, and either no location at all or a
\* city and a state whose slug has exactly two tokens
C2_Covered(opts) ==
    /\ Truthy(opts.serviceName) /\ toSlug(opts.serviceName) # << >>
    /\ \/ opts.cityName = Null /\ opts.stateName = Null
       \/ /\ Truthy(opts.cityName) /\ toSlug(opts.cityName) # << >>
          /\ Truthy(opts.stateName)
          /\ Len(Split(toSlug(opts.stateName), << "-" >>)) = 2

SlugOrNull(name) == IF name = Null THEN Null ELSE toSlug(name)

\* C2: round trip - parsing the path built from a service-only or a
\* service+city+state input (two-token state) gives back exactly the slugs
\* of the input's service, city and state.
C2_RoundTrip ==
    (seoPhase = "parsed" /\ C2_Covered(seoOpts))
    => seoTriple = [ serviceSlug |-> toSlug(seoOpts.serviceName),
                     citySlug    |-> SlugOrNull(seoOpts.cityName),
                     stateSlug   |-> SlugOrNull(seoOpts.stateName) ]

C3_NoTimerOpen ==
    (mounted /\ viewAfterSubmit)
    => (openedBy # "timer" /\ pending.open # "timer" /\ timerOpens = 0)

C3_ManualOpens ==
    /\ (mounted /\ viewAfterSubmit /\ lastOp' = "openPopup")
       => pending'.open = "manual"
    /\ (mounted /\ viewAfterSubmit /\ pending.open = "manual"
          /\ lastOp' \in { "render", "propChange" })
       => isOpen'

\* C3: in a page view mounted after the submitted flag was stored, the popup
\* never goes to open through the auto-open timer, while a manual
\* openPopup() still opens it.
C3_AfterSubmitOnlyManual == [] C3_NoTimerOpen /\ [][C3_ManualOpens]_vars

C3_Witness ==
    /\ mounted /\ viewAfterSubmit /\ enabledAutoOpen
    /\ isOpen /\ openedBy = "manual"

AutoOpenDue ==
    /\ mounted /\ enabledAutoOpen
    /\ ~hasSubmitted /\ ~hasDismissed

\* C4: with auto-open enabled, nothing submitted, nothing dismissed and the
\* view mounted, the popup eventually is open (unless one of these
\* conditions ends first), and the timer opens a closed popup at most once
\* per page view.
C4_AutoOpenOnce ==
    /\ [] (timerOpens <= 1)
    /\ (AutoOpenDue ~> (isOpen \/ ~AutoOpenDue))

C4_Witness ==
    /\ mounted /\ isOpen /\ hasDismissed = FALSE
    /\ openedBy = "timer" /\ timerOpens = 1 /\ lastOp = "render"

\* C5: on every subdomain a request whose path is /dashboard or under
\* /dashboard/ is passed through with its URL unchanged.
C5_DashboardPassThrough ==
    (Handled /\ Under(req.path, << "/", "dashboard" >>))
    => (resp.kind = "next" /\ resp.url = NextUrl(req))

C5_Witness ==
    /\ Handled
    /\ req.host \in LabelHosts("vendor")
    /\ req.path = << "/", "dashboard", "/", "x" >>
    /\ resp.kind = "next"

\* C6: a request whose path starts with /auth/ is never rewritten: it is
\* passed through, or redirected (path unchanged) to the subdomain that
\* owns the auth path.
C6_AuthNeverRewritten ==
    (Handled /\ StartsWith(req.path, << "/", "auth", "/" >>))
    => \/ resp.kind = "next" /\ resp.url = NextUrl(req)
       \/ /\ StartsWith(req.path, << "/", "auth", "/", "vendor", "/" >>)
          /\ RedirectedTo("vendor")
       \/ /\ StartsWith(req.path, << "/", "auth", "/", "user", "/" >>)
          /\ RedirectedTo("buyer")

C6_Witness ==
    /\ Handled
    /\ req.host \in LabelHosts("man")
    /\ req.path = << "/", "auth", "/", "x" >>
    /\ resp.kind = "next"

C7_Redirects ==
    /\ (StartsWith(req.path, << "/", "auth", "/", "vendor", "/" >>)
          /\ req.host \notin LabelHosts("vendor"))
       => RedirectedTo("vendor")
    /\ (StartsWith(req.path, << "/", "auth", "/", "user", "/" >>)
          /\ req.host \notin LabelHosts("buyer"))
       => RedirectedTo("buyer")
    /\ (Under(req.path, << "/", "directory" >>)
          /\ req.host \notin LabelHosts("dir"))
       => RedirectedTo("dir")

\* C7 as stated: /auth/vendor/..., /auth/user/... and /directory[/...]
\* requested on another subdomain are redirected to the vendor, buyer and
\* dir subdomain host, path unchanged.
C7_Original == Handled => C7_Redirects

\* C7 as amended: the same, for paths without a file extension.
C7_CrossSubdomainRedirect ==
    (Handled /\ ~HasFileExtension(req.path)) => C7_Redirects

C7_Witness ==
    /\ Handled
    /\ req.host \in LabelHosts("www")
    /\ req.path = << "/", "directory" >>
    /\ resp.kind = "redirect"
    /\ resp.url.hostname \in DirHostnames

\* C8: on vendor, buyer, emp and man a path (not an auth, directory or
\* file-extension path) that starts with the subdomain's prefix is passed
\* through; any other path not under /dashboard is rewritten to
\* prefix + path, '/' to the bare prefix.
C8_GenericRewrite ==
    \A l \in { "vendor", "buyer", "emp", "man" } :
      ( /\ Handled
        /\ req.host \in LabelHosts(l)
        /\ ~HasFileExtension(req.path)
        /\ ~Under(req.path, << "/", "auth" >>)
        /\ ~Under(req.path, << "/", "directory" >>) )
      => LET prefix == SUBDOMAIN_MAP(<< l >>)
         IN  IF StartsWith(req.path, prefix)
             THEN resp.kind = "next" /\ resp.url = NextUrl(req)
             ELSE ~Under(req.path, << "/", "dashboard" >>)
                  => /\ resp.kind = "rewrite"
                     /\ resp.url.pathname =
                          IF req.path = << "/" >> THEN prefix
                          ELSE prefix \o req.path

\* C9: on the dir subdomain a non-root path without file extension that
\* starts with no reserved prefix is rewritten (not redirected) to
\* '/directory' + path, host and port unchanged.
C9_DirRewrite ==
    ( /\ Handled
      /\ req.host \in LabelHosts("dir")
      /\ req.path # << "/" >>
      /\ ~HasFileExtension(req.path)
      /\ \A prefix \in ReservedPrefixes : ~StartsWith(req.path, prefix) )
    => /\ resp.kind = "rewrite"
       /\ resp.url = [ NextUrl(req) EXCEPT
                         !.pathname = << "/", "directory" >> \o req.path ]

C9_Witness ==
    /\ Handled
    /\ req.host \in LabelHosts("dir")
    /\ req.path = << "/", "land-surveyors" >>
    /\ resp.kind = "rewrite"
    /\ resp.url.pathname = << "/", "directory", "/", "land-surveyors" >>

\* C10 as stated: every redirect keeps the port of the request's host when
\* the host carries one, on production and on localhost hosts.
C10_Original ==
    (Handled /\ resp.kind = "redirect" /\ HostPort(req.host) # << >>)
    => resp.url.port = HostPort(req.host)

\* C10 as amended: a redirect from a localhost host keeps the port the host
\* carries; a redirect from any other host carries no port.
C10_PortOnLocalhostOnly ==
    (Handled /\ resp.kind = "redirect")
    => IF OnLocalhost(req.host)
       THEN HostPort(req.host) # << >> => resp.url.port = HostPort(req.host)
       ELSE resp.url.port = << >>

C10_Witness ==
    /\ Handled
    /\ resp.kind = "redirect"
    /\ OnLocalhost(req.host)
    /\ req.urlPort = << >>
    /\ resp.url.port = << "3000" >>

(***************************************************************************)
(* Claims about the slug parser                                            *)
(***************************************************************************)
\* a segment list has been parsed, from a built path or a visited URL
SeoParsed == seoPhase \in { "parsed", "visited" }

\* the slug string the segments are joined to
JoinedSlug == Join(seoParams, << "-" >>)

BeforeFirstMarker(slug) == SubSeq(slug, 1, IndexOf(slug, InMarker) - 1)

AfterFirstMarker(slug) ==
    SubSeq(slug, IndexOf(slug, InMarker) + Len(InMarker), Len(slug))

\* C11: when the joined slug contains '-in-', serviceSlug is everything
\* before the first '-in-' and the city and state are taken from everything
\* after it, later '-in-' occurrences included.
C11_SplitAtFirstMarker ==
    (SeoParsed /\ Includes(JoinedSlug, InMarker))
    => /\ seoTriple.serviceSlug = BeforeFirstMarker(JoinedSlug)
       /\ seoTriple.citySlug = ParseLocation(AfterFirstMarker(JoinedSlug)).citySlug
       /\ seoTriple.stateSlug =
              ParseLocation(AfterFirstMarker(JoinedSlug)).stateSlug

\* the hyphen-separated tokens of the location part the parser works on
LocationTokens == Split(Split(JoinedSlug, InMarker)[2], << "-" >>)

NonEmptyTokens(parts) == \A k \in 1..Len(parts) : parts[k] # << >>

C13_NeverEmptyString ==
    SeoParsed =>
      /\ seoTriple.serviceSlug # << >>
      /\ seoTriple.citySlug # << >>
      /\ seoTriple.stateSlug # << >>
      /\ seoParams # << >> =>
            \/ seoTriple.serviceSlug # Null
            \/ seoTriple.citySlug # Null
            \/ seoTriple.stateSlug # Null

(***************************************************************************)
(* Claims about the path builder and the slug codec                        *)
(***************************************************************************)
\* a name is given
Given(name) == name # Null /\ name # << >>

\* a name is given and has a slug
HasSlug(name) == Given(name) /\ toSlug(name) # << >>

FullPath(opts) ==
    DirectoryPrefix \o toSlug(opts.serviceName) \o << "-", "i", "n", "-" >>
        \o toSlug(opts.cityName) \o << "-" >> \o toSlug(opts.stateName)

ServicePath(opts) == DirectoryPrefix \o toSlug(opts.serviceName)

\* C14 as stated: the full path exactly when service, city and state names
\* are all given, the service-only path when the service name is given and
\* city or state is missing, null exactly when no service name is given.
C14_Original ==
    seoPhase = "built" =>
      LET all == /\ Given(seoOpts.serviceName)
                 /\ Given(seoOpts.cityName)
                 /\ Given(seoOpts.stateName)
      IN  /\ all => seoPath = FullPath(seoOpts)
          /\ (Given(seoOpts.serviceName) /\ ~all) => seoPath = ServicePath(seoOpts)
          /\ seoPath = Null <=> ~Given(seoOpts.serviceName)

\* C14 as amended: the full path exactly when the service, city and state
\* names all have a non-empty slug, the service-only path when the service
\* name has one and city or state has none, null exactly when the service
\* name is missing or its slug is empty, whatever the location.
C14_PathBySlugs ==
    seoPhase = "built" =>
      LET all == /\ HasSlug(seoOpts.serviceName)
                 /\ HasSlug(seoOpts.cityName)
                 /\ HasSlug(seoOpts.stateName)
      IN  /\ all => seoPath = FullPath(seoOpts)
          /\ (HasSlug(seoOpts.serviceName) /\ ~all) => seoPath = ServicePath(seoOpts)
          /\ seoPath = Null <=> ~HasSlug(seoOpts.serviceName)

C14_Witness ==
    /\ seoPhase = "built"
    /\ seoOpts = [ serviceName |-> << "B" >>, cityName |-> << "a" >>,
                   stateName |-> Null ]
    /\ seoPath = << "/", "directory", "/", "b" >>

\* the characters a slug may hold: a-z, 0-9 and the hyphen
IsSlugChar(c) == IsSlugSafe(c) /\ ~IsWhitespace(c)

\* the text holds no letter, digit or hyphen
AllPunctuation(text) ==
    \A k \in 1..Len(text) :
        ~IsSlugSafe(LowerCase(text[k])) \/ IsWhitespace(text[k])

\* C15: toSlug is idempotent and total: its result holds only a-z, 0-9 and
\* '-', has no leading, trailing or consecutive hyphen, is the empty string
\* for an empty or all-punctuation text, and toSlug of it is itself.
C15_SlugIdempotent ==
    /\ slugPhase \in { "once", "twice" } =>
         /\ \A k \in 1..Len(slugOnce) : IsSlugChar(slugOnce[k])
         /\ slugOnce # << >> =>
               (slugOnce[1] # "-" /\ slugOnce[Len(slugOnce)] # "-")
         /\ \A k \in 1..(Len(slugOnce) - 1) :
               ~(slugOnce[k] = "-" /\ slugOnce[k + 1] = "-")
         /\ AllPunctuation(slugText) => slugOnce = << >>
    /\ slugPhase = "twice" => slugTwice = slugOnce

C15_Witness ==
    /\ slugPhase = "twice"
    /\ slugText = << " ", "B", " ", "-", "a" >>
    /\ slugOnce = << "b", "-", "a" >>
    /\ slugTwice = << "b", "-", "a" >>

(***************************************************************************)
(* Claims about the category resolver                                      *)
(***************************************************************************)
\* a lookup with a service name and a catalog has run
Resolved == catPhase = "resolved" /\ Truthy(catService) /\ catalog # << >>

\* the categories whose own name is the looked-up name
HeadMatches ==
    { k \in 1..Len(catalog) : Normalise(catalog[k].name) = Normalise(catService) }

\* the categories with a subcategory of the looked-up name
SubMatches ==
    { k \in 1..Len(catalog) :
        \E j \in 1..Len(catalog[k].subCategories) :
            Normalise(catalog[k].subCategories[j]) = Normalise(catService) }

First(S) == CHOOSE k \in S : \A h \in S : k <= h

\* C16: the name is first tested against all top-level names and only
\* otherwise against subcategories: a top-level match gives that category
\* with microCategory null even when the name is a subcategory of an earlier
\* category; among subcategory matches the first in catalog order wins.
C16_TopLevelFirst ==
    Resolved =>
      IF HeadMatches # {}
      THEN /\ catPath.headCategory = catalog[First(HeadMatches)].name
           /\ catPath.microCategory = Null
      ELSE SubMatches # {} =>
             LET k == First(SubMatches)
                 subs == catalog[k].subCategories
                 j == First({ i \in 1..Len(subs) :
                                Normalise(subs[i]) = Normalise(catService) })
             IN  /\ catPath.headCategory = catalog[k].name
                 /\ catPath.microCategory = subs[j]

\* the cases without a result: no service name, no catalog, no match
NothingFound ==
    \/ ~Truthy(catService)
    \/ catalog = << >>
    \/ HeadMatches = {} /\ SubMatches = {}

\* C17 as stated: without a service name, a catalog or a match the result
\* has headCategory and microCategory null and serviceName equal to the
\* input, unchanged.
C17_Original ==
    (catPhase = "resolved" /\ NothingFound)
    => catPath = [ headCategory |-> Null, microCategory |-> Null,
                   serviceName |-> catService ]

\* C17 as amended: in those cases headCategory and microCategory are null
\* and serviceName is the input unchanged, except that the empty string
\* comes back as null.
C17_NothingFound ==
    (catPhase = "resolved" /\ NothingFound)
    => catPath = [ headCategory |-> Null, microCategory |-> Null,
                   serviceName |-> IF catService = << >> THEN Null
                                   ELSE catService ]

C17_Witness ==
    /\ catPhase = "resolved"
    /\ catService = << " ", "B" >>
    /\ catalog = << [ name |-> << "a" >>, subCategories |-> << << "a" >> >> ] >>
    /\ catPath = [ headCategory |-> Null, microCategory |-> Null,
                   serviceName |-> << " ", "B" >> ]

(***************************************************************************)
(* Claims about manual opening and dismissal of the lead popup             *)
(***************************************************************************)
\* C18: once a manual openPopup() has been rendered the popup is open and
\* the auto-open timer that was pending is cancelled.
C18_ManualOpenCancelsTimer ==
    (mounted /\ lastOp = "render" /\ openedBy = "manual" /\ isOpen)
    => timer = -1

\* closePopup() queues the dismissal and leaves session storage as it is
CloseInMemoryOnly ==
    lastOp' = "closePopup" => (pending'.dismissed /\ storage' = storage)

\* a page view that has rendered its dismissal has no timer armed
NoTimerAfterDismissal == (mounted /\ hasDismissed) => timer = -1

\* a page view just mounted after a dismissal of the same session
FreshViewAfterDismissal == mounted /\ lastOp = "mount" /\ viewAfterDismiss

C21_UnmountCancelsTimer ==
    /\ [](~mounted => (timer = -1 /\ ~isOpen /\ pending.open = "keep"))
    /\ [][lastOp' = "timer" => mounted]_vars

C21_Witness ==
    /\ ~mounted
    /\ lastOp = "unmount"
    /\ timerAtUnmount
    /\ timer = -1

\* the timer turns a closed popup into an open one in this step
TimerOpensPopup == ~isOpen /\ isOpen' /\ openedBy' = "timer"

C23_ReadFailureFailsOpen ==
    lastOp = "mountFailed" => (mounted /\ ~hasSubmitted /\ ~mountError)

\* C25: in a page view mounted with the submitted flag already stored the
\* timeout is never armed, not even before the flag has been read.
C25_NeverArmedAfterSubmit ==
    (mounted /\ viewAfterSubmit) => timer = -1

\* C26: once closePopup or markAsSubmitted has closed the popup, the timer
\* callback never sets it open again: a queued close is not overridden by
\* the timer, and after the close is rendered the timer opens nothing.
C26_NoReopenAfterClose ==
    /\ [][pending.open = "close" => pending'.open # "timer"]_vars
    /\ [][(mounted /\ (hasDismissed \/ hasSubmitted)) => ~TimerOpensPopup]_vars

\* C24: on the dir subdomain the root path and every path under a reserved
\* prefix are passed through with the URL unchanged, never rewritten.
DirKeptAsIs(path) ==
    \/ path = << "/" >>
    \/ \E prefix \in ReservedPrefixes : Under(path, prefix)

C24_DirReservedKeptAsIs ==
    (Handled /\ req.host \in LabelHosts("dir") /\ DirKeptAsIs(req.path))
    => (resp.kind = "next" /\ resp.url = NextUrl(req))

\* C27: the request a redirect leads to is passed through or rewritten, so
\* a client never follows a second redirect for one request.
C27_NoRedirectLoop ==
    /\ hops <= 1
    /\ (Handled /\ hops = 1) => resp.kind \in { "next", "rewrite" }

C27_Witness ==
    /\ Handled /\ hops = 1
    /\ req.host \in LabelHosts("dir")
    /\ req.path = << "/", "land-surveyors" >>
    /\ resp.kind = "rewrite"

\* C28: on every directory SEO URL the service, city and state titles
\* DirectoryPage derives from the pathname are the titles of the slugs
\* parseSeoSlug returned for that URL.
TitlesOf(triple) ==
    [ service |-> slugToTitle(triple.serviceSlug),
      city    |-> slugToTitle(triple.citySlug),
      state   |-> slugToTitle(triple.stateSlug) ]

C28_TitlesAgreeWithParser ==
    SeoParsed => seoTitles = TitlesOf(seoTriple)

\* C29: once no city fetch is in flight, the suggestions shown are those
\* of the latest (stateName, cityName), and a non-null cityName is the
\* first entry, marked isCurrent.
C29_LatestArgsWin ==
    (sugMounted /\ inflight = { } /\ Truthy(stateName))
    => /\ shownFor = [ stateName |-> stateName, cityName |-> cityName ]
       /\ Truthy(cityName)
            => /\ citySuggestions # << >>
               /\ citySuggestions[1].isCurrent
               /\ LowerName(citySuggestions[1].name) = LowerName(cityName)

\* C30: while the store keeps loading, the loading view lasts only until
\* the timeout; an unauthenticated visitor of a requireAuth route never sees
\* the children and is eventually redirected to redirectTo.
StuckLoading ==
    guardMounted /\ auth.loading /\ requireAuth /\ ~auth.isAuthenticated

C30_TimeoutThenRedirect ==
    /\ []((guardMounted /\ guardView = "loading")
            => (guardTimer >= 0 \/ guardPending = "true"))
    /\ []((guardMounted /\ requireAuth /\ ~auth.isAuthenticated)
            => guardView # "children")
    /\ (StuckLoading ~> (pushed = "redirectTo" \/ ~StuckLoading))
====
